---- MODULE Spec2Model ----
(***************************************************************************)
(* Model of src/common/ui-wrapper.js: the UIWrapper class, a proxy-guarded *)
(* adapter around the UIManager of playkit-js-ui.                          *)
(*                                                                         *)
(* Everything the wrapper does to the outside world (UIManager calls, DOM  *)
(* appends, stylesheet loads, logger entries) is recorded, in order, in    *)
(* the sequence `events`; every call made on the wrapper returned by the   *)
(* constructor is recorded in `history`.                                   *)
(***************************************************************************)
EXTENDS Integers, Sequences, FiniteSets, TLC

(***************************************************************************)
(* JavaScript values.  Scalars are tagged records, objects are records of  *)
(* their own properties, so that any two values can be compared.           *)
(***************************************************************************)
Undefined == [undefined |-> TRUE]
Bool(b) == [bool |-> b]
Str(s) == [str |-> s]
Num(n) == [num |-> n]
Ref(name) == [ref |-> name]
EmptyObj == [k \in {} |-> Undefined]

\* ToBoolean of the values the model uses
Truthy(v) == v \notin {Undefined, Bool(FALSE), Num(0), Str("")}

\* obj[key]: a property that is not there reads as undefined
Get(obj, key) == IF key \in DOMAIN obj THEN obj[key] ELSE Undefined

\* playkit-js Utils.Object.isObject on the values the model uses
IsObject(v) == DOMAIN v \cap {"undefined", "bool", "str", "num", "url"} = {}

(***************************************************************************)
(* Bounds                                                                  *)
(***************************************************************************)
\* calls made on a wrapper after its construction (specification Spec)
MaxOps == 2
\* the same, for the specification over every construction input (CtorSpec)
MaxCtorOps == 1

(***************************************************************************)
(* State                                                                   *)
(***************************************************************************)
VARIABLES
  pc,         \* "new" before the constructor has run, "ready" after
  options,    \* the KPOptionsObject given to the constructor
  env,        \* Env.isMobile, Env.isTablet
  dom,        \* ids of the elements document.getElementById finds
  disabled,   \* UIWrapper._disabled
  uiManager,  \* UIWrapper._uiManager: NoManager, or the id of the UIManager instance
  instances,  \* number of UIManager instances created so far
  loads,      \* the stylesheet loads started: "pending", "loaded" or "failed" each
  events,     \* every call the wrapper made on its collaborators, in order
  history     \* every call made on the wrapper, with its outcome

vars == <<pc, options, env, dom, disabled, uiManager, instances, loads, events, history>>

NoManager == 0

\* one call on a collaborator of the wrapper
Ev(target, inst, method, args, ret) ==
  [target |-> target, inst |-> inst, method |-> method, args |-> args, ret |-> ret]

\* the outcome of running a piece of the wrapper's code: the events so far,
\* the value returned, whether a TypeError was thrown
Outcome(ev, ret, threw) == [events |-> ev, ret |-> ret, threw |-> threw]

PlayerView == Ref("playerView")
Player == Ref("player")

(***************************************************************************)
(* Helpers the wrapper imports                                             *)
(***************************************************************************)
\* ./utils/thumbs: the width and the number of slices of the default sprite
DEFAULT_THUMBS_WIDTH == 164
DEFAULT_THUMBS_SLICES == 100

\* ./utils/thumbs getThumbSlicesUrl: the sprite url computed from the media
\* config and the seekbar config, kept as the uninterpreted term of its arguments
getThumbSlicesUrl(mediaConfig, seekbarConfig) == [url |-> <<mediaConfig, seekbarConfig>>]

\* Utils.Object.getPropertyPath: follows the path, stops at undefined
RECURSIVE getPropertyPath(_, _)
getPropertyPath(obj, propertyPath) ==
  IF propertyPath = <<>> \/ obj = Undefined
    THEN obj
    ELSE getPropertyPath(Get(obj, Head(propertyPath)), Tail(propertyPath))

\* one source merged into the target: every property of the source is
\* assigned to the target; a source that is not an object is skipped.
\* (Property values are scalars here, as the SeekbarConfig type has them.)
MergeInto(target, source) ==
  IF IsObject(target) /\ IsObject(source)
    THEN [k \in DOMAIN target \cup DOMAIN source |->
            IF k \in DOMAIN source THEN source[k] ELSE target[k]]
    ELSE target

\* Utils.Object.mergeDeep(target, ...sources): the sources merged left to right
RECURSIVE mergeDeep(_, _)
mergeDeep(target, sources) ==
  IF sources = <<>>
    THEN target
    ELSE mergeDeep(MergeInto(target, Head(sources)), Tail(sources))

(***************************************************************************)
(* Module functions                                                        *)
(***************************************************************************)
\* appendPlayerViewToTargetContainer without the test of the element found
appendPlayerViewToTargetContainer_NoTest(ev, targetId, view) ==
  Append(ev, Ev("element", 0, "appendChild", <<targetId, view>>, Undefined))

\* appendPlayerViewToTargetContainer(targetId, view)
appendPlayerViewToTargetContainer(ev, targetId, view) ==
  IF targetId \in dom
    THEN Append(ev, Ev("element", 0, "appendChild", <<targetId, view>>, Undefined))
    ELSE ev

\* getPreviewThumbnailConfig(mediaConfig, seekbarConfig)
getPreviewThumbnailConfig(mediaConfig, seekbarConfig) ==
  [thumbsSprite |-> getThumbSlicesUrl(mediaConfig, seekbarConfig),
   thumbsWidth |-> Num(DEFAULT_THUMBS_WIDTH),
   thumbsSlices |-> Num(DEFAULT_THUMBS_SLICES)]

(***************************************************************************)
(* Methods of UIWrapper.  `mgr` is this._uiManager and `ev` the events so  *)
(* far; each yields an Outcome.  `uimRet` is what the UIManager returns.   *)
(***************************************************************************)
IsUimDestroy(e) == e.target = "UIManager" /\ e.method = "destroy"

\* this._uiManager.<method>(...args): a TypeError when there is no manager
UimCall(mgr, ev, method, args, uimRet) ==
  IF mgr = NoManager
    THEN Outcome(ev, Undefined, TRUE)
    ELSE Outcome(Append(ev, Ev("UIManager", mgr, method, args, uimRet)), uimRet, FALSE)

\* a method that calls `r` and returns nothing
Void(r) == Outcome(r.events, Undefined, r.threw)

destroy(mgr, ev) == Void(UimCall(mgr, ev, "destroy", <<>>, Undefined))

\* setConfig that waits for the stylesheet: dropped while a load is pending
setConfig_DroppedWhilePending(mgr, ev, config, componentAlias) ==
  IF \E i \in DOMAIN loads : loads[i] = "pending"
    THEN Outcome(ev, Undefined, FALSE)
    ELSE Void(UimCall(mgr, ev, "setConfig", <<config, componentAlias>>, Undefined))

\* setConfig that remembers destroy: dropped once destroy was called
setConfig_DroppedAfterDestroy(mgr, ev, config, componentAlias) ==
  IF \E i \in DOMAIN ev : IsUimDestroy(ev[i])
    THEN Outcome(ev, Undefined, FALSE)
    ELSE Void(UimCall(mgr, ev, "setConfig", <<config, componentAlias>>, Undefined))

setConfig(mgr, ev, config, componentAlias) ==
  Void(UimCall(mgr, ev, "setConfig", <<config, componentAlias>>, Undefined))

\* addComponent without its return statement
addComponent_NoReturn(mgr, ev, component, uimRet) ==
  Void(UimCall(mgr, ev, "addComponent", <<component>>, uimRet))

addComponent(mgr, ev, component, uimRet) ==
  UimCall(mgr, ev, "addComponent", <<component>>, uimRet)

registerManager(mgr, ev, name, manager) ==
  Void(UimCall(mgr, ev, "registerManager", <<name, manager>>, Undefined))

getManager(mgr, ev, name, uimRet) == UimCall(mgr, ev, "getManager", <<name>>, uimRet)

hasManager(mgr, ev, name, uimRet) == UimCall(mgr, ev, "hasManager", <<name>>, uimRet)

resetErrorState(mgr, ev) == setConfig(mgr, ev, [hasError |-> Bool(FALSE)], Str("engine"))

reset(mgr, ev) == Void(resetErrorState(mgr, ev))

\* setSeekbarConfig with the two sources of the merge exchanged
setSeekbarConfig_UserFirst(mgr, ev, mediaConfig, uiConfig) ==
  LET seekbarConfig == getPropertyPath(uiConfig, <<"components", "seekbar">>)
      previewThumbnailConfig == getPreviewThumbnailConfig(mediaConfig, seekbarConfig)
  IN  setConfig(mgr, ev,
                mergeDeep(EmptyObj, <<seekbarConfig, previewThumbnailConfig>>),
                Str("seekbar"))

setSeekbarConfig(mgr, ev, mediaConfig, uiConfig) ==
  LET seekbarConfig == getPropertyPath(uiConfig, <<"components", "seekbar">>)
      previewThumbnailConfig == getPreviewThumbnailConfig(mediaConfig, seekbarConfig)
  IN  setConfig(mgr, ev,
                mergeDeep(EmptyObj, <<previewThumbnailConfig, seekbarConfig>>),
                Str("seekbar"))

setLoadingSpinnerState(mgr, ev, show) ==
  setConfig(mgr, ev, [show |-> show], Str("loading"))

\* _setStereoConfig that takes any falsy toggleStereo for "not set"
setStereoConfig_IgnoresFalse(mgr, ev, vrConfig) ==
  IF Truthy(Get(vrConfig, "toggleStereo")) \/ env.isMobile \/ env.isTablet
    THEN setConfig(mgr, ev,
                   mergeDeep(EmptyObj,
                             << [vrStereoMode |-> Bool(Truthy(Get(vrConfig, "startInStereo")))] >>),
                   Str("vrStereo"))
    ELSE Outcome(ev, Undefined, FALSE)

\* _setStereoConfig(vrConfig)
setStereoConfig(mgr, ev, vrConfig) ==
  IF \/ Truthy(Get(vrConfig, "toggleStereo"))
     \/ /\ (env.isMobile \/ env.isTablet)
        /\ Get(vrConfig, "toggleStereo") # Bool(FALSE)
    THEN setConfig(mgr, ev,
                   mergeDeep(EmptyObj,
                             << [vrStereoMode |-> Bool(Truthy(Get(vrConfig, "startInStereo")))] >>),
                   Str("vrStereo"))
    ELSE Outcome(ev, Undefined, FALSE)

\* _handleVr(config = {})
handleVr(mgr, ev, plugins) ==
  LET config == IF plugins = Undefined THEN EmptyObj ELSE plugins
  IN  IF Truthy(Get(config, "vr")) /\ ~Truthy(Get(Get(config, "vr"), "disable"))
        THEN setStereoConfig(mgr, ev, Get(config, "vr"))
        ELSE Outcome(ev, Undefined, FALSE)

\* _handleExternalCSS without the test of config.css
handleExternalCSS_Always(ev, lds, config) ==
  [events |-> Append(ev, Ev("Utils.Dom", Len(lds) + 1, "loadStyleSheetAsync",
                            <<Get(config, "css")>>, Undefined)),
   loads |-> Append(lds, "pending")]

\* _handleExternalCSS(config): the events and the loads after it
handleExternalCSS(ev, lds, config) ==
  IF Truthy(Get(config, "css"))
    THEN [events |-> Append(ev, Ev("Utils.Dom", Len(lds) + 1, "loadStyleSheetAsync",
                                   <<Get(config, "css")>>, Undefined)),
          loads |-> Append(lds, "pending")]
    ELSE [events |-> ev, loads |-> lds]

\* the two branches of the build exchanged
buildUI_Swapped(mgr, ev, config) ==
  IF Truthy(Get(config, "customPreset"))
    THEN UimCall(mgr, ev, "buildDefaultUI", <<>>, Undefined)
    ELSE UimCall(mgr, ev, "buildCustomUI", <<Get(config, "customPreset")>>, Undefined)

\* constructor, lines 24-28: buildCustomUI(customPreset) or buildDefaultUI()
buildUI(mgr, ev, config) ==
  IF Truthy(Get(config, "customPreset"))
    THEN UimCall(mgr, ev, "buildCustomUI", <<Get(config, "customPreset")>>, Undefined)
    ELSE UimCall(mgr, ev, "buildDefaultUI", <<>>, Undefined)

\* the two callbacks given to then() in _handleExternalCSS, for load i
onLoaded(ev, i) ==
  Append(ev, Ev("logger", i, "debug", <<Str("external css was loaded successfully")>>, Undefined))

\* a rejection handler that falls through to the success entry as well
onFailed_AlsoDebug(ev, i) ==
  Append(Append(ev, Ev("logger", i, "error", <<Str("external css failed to load")>>, Undefined)),
         Ev("logger", i, "debug", <<Str("external css was loaded successfully")>>, Undefined))

onFailed(ev, i) ==
  Append(ev, Ev("logger", i, "error", <<Str("external css failed to load")>>, Undefined))

\* the get trap of the Proxy the constructor returns: the function that a
\* read of `prop` on the wrapper yields
NoopFn == "() => undefined"
\* a get trap that hands out the method even when disabled
ProxyGet_NoTrap(prop) == prop
ProxyGet(prop) == IF disabled THEN NoopFn ELSE prop

\* calling the function `fn` read from the wrapper, with this._uiManager = mgr
ApplyOn(mgr, ev, fn, args, uimRet) ==
  CASE fn = NoopFn -> Outcome(ev, Undefined, FALSE)
    [] fn = "destroy" -> destroy(mgr, ev)
    [] fn = "reset" -> reset(mgr, ev)
    [] fn = "setConfig" -> setConfig(mgr, ev, args[1], args[2])
    [] fn = "addComponent" -> addComponent(mgr, ev, args[1], uimRet)
    [] fn = "registerManager" -> registerManager(mgr, ev, args[1], args[2])
    [] fn = "getManager" -> getManager(mgr, ev, args[1], uimRet)
    [] fn = "hasManager" -> hasManager(mgr, ev, args[1], uimRet)
    [] fn = "setSeekbarConfig" -> setSeekbarConfig(mgr, ev, args[1], args[2])
    [] fn = "setLoadingSpinnerState" -> setLoadingSpinnerState(mgr, ev, args[1])

(***************************************************************************)
(* Inputs                                                                  *)
(***************************************************************************)
TargetId == Str("player-target")
CustomPreset == Ref("customPreset")
CssUrl == Str("https://cdn/skin.css")

UiOptions(disables, presets, csss) ==
  [disable : disables, targetId : {TargetId}, customPreset : presets, css : csss]

VrOptions ==
  [disable : {Undefined, Bool(TRUE)},
   toggleStereo : {Undefined, Bool(FALSE), Num(0), Bool(TRUE)},
   startInStereo : {Undefined, Bool(TRUE)}]

\* every construction input
AllOptions ==
  [ui : UiOptions({Undefined, Bool(TRUE)}, {Undefined, CustomPreset}, {Undefined, CssUrl}),
   plugins : {Undefined, EmptyObj} \cup [vr : VrOptions]]

\* the construction inputs the calls after construction are explored from
SomeOptions ==
  [ui : UiOptions({Bool(FALSE), Bool(TRUE)}, {Undefined, CustomPreset}, {Str(""), CssUrl}),
   plugins : {Undefined, [vr |-> [toggleStereo |-> Bool(TRUE), startInStereo |-> Num(0)]]}]

Configs == {Ref("configA"), Ref("configB")}
Aliases == {Undefined, Str("overlay")}
Components == {Ref("component")}
ManagerNames == {Str("timeline")}
Managers == {Ref("timelineManager")}
\* what the UIManager may answer
RemoveFns == {Ref("removeComponent"), Undefined}
ManagerAnswers == {Ref("timelineManager"), Undefined}
MediaConfigs == {Ref("mediaConfig")}
SeekbarConfigs ==
  {EmptyObj,
   [thumbsWidth |-> Num(200)],
   [thumbsSprite |-> Str("user.png"), thumbsSlices |-> Num(50), color |-> Str("red")]}
UiConfigs == {EmptyObj, [components |-> EmptyObj]} \cup [components : [seekbar : SeekbarConfigs]]

(***************************************************************************)
(* Initial states: nothing constructed yet                                 *)
(***************************************************************************)
InitWith(opts, envs, doms) ==
  /\ pc = "new"
  /\ options \in opts
  /\ env \in envs
  /\ dom \in doms
  /\ disabled = FALSE
  /\ uiManager = NoManager
  /\ instances = 0
  /\ loads = <<>>
  /\ events = <<>>
  /\ history = <<>>

Init == InitWith(SomeOptions, {[isMobile |-> FALSE, isTablet |-> FALSE]}, {{TargetId}})

CtorInit == InitWith(AllOptions, [isMobile : BOOLEAN, isTablet : BOOLEAN], {{}, {TargetId}})

(***************************************************************************)
(* Actions                                                                 *)
(***************************************************************************)
\* new UIWrapper(player, options)
Construct ==
  /\ pc = "new"
  /\ LET config == Get(options, "ui") IN
       IF Truthy(Get(config, "disable"))
         THEN /\ disabled' = TRUE
              /\ events' = appendPlayerViewToTargetContainer(events, Get(config, "targetId"), PlayerView)
              /\ UNCHANGED <<uiManager, instances, loads>>
         ELSE LET mgr == instances + 1
                  created == Append(events, Ev("UIManager", mgr, "new", <<Player, config>>, Undefined))
                  built == buildUI(mgr, created, config)
                  vr == handleVr(mgr, built.events, Get(options, "plugins"))
                  css == handleExternalCSS(vr.events, loads, config)
              IN  /\ uiManager' = mgr
                  /\ instances' = mgr
                  /\ events' = css.events
                  /\ loads' = css.loads
                  /\ UNCHANGED disabled
  /\ pc' = "ready"
  /\ UNCHANGED <<options, env, dom, history>>

\* wrapper[prop](...args), on the proxy the constructor returned
Call(max, prop, args, uimRet) ==
  /\ pc = "ready"
  /\ Len(history) < max
  /\ LET r == ApplyOn(uiManager, events, ProxyGet(prop), args, uimRet) IN
       /\ events' = r.events
       /\ history' = Append(history,
                            [op |-> prop, args |-> args, ret |-> r.ret, threw |-> r.threw,
                             uimRet |-> uimRet, from |-> Len(events), to |-> Len(r.events)])
  /\ UNCHANGED <<pc, options, env, dom, disabled, uiManager, instances, loads>>

Destroy(max) == Call(max, "destroy", <<>>, Undefined)

Reset(max) == Call(max, "reset", <<>>, Undefined)

SetConfig(max) ==
  \E c \in Configs, a \in Aliases : Call(max, "setConfig", <<c, a>>, Undefined)

AddComponent(max) ==
  \E c \in Components, r \in RemoveFns : Call(max, "addComponent", <<c>>, r)

RegisterManager(max) ==
  \E n \in ManagerNames, m \in Managers : Call(max, "registerManager", <<n, m>>, Undefined)

GetManager(max) ==
  \E n \in ManagerNames, r \in ManagerAnswers : Call(max, "getManager", <<n>>, r)

HasManager(max) ==
  \E n \in ManagerNames, r \in {Bool(TRUE), Bool(FALSE)} : Call(max, "hasManager", <<n>>, r)

SetSeekbarConfig(max) ==
  \E m \in MediaConfigs, u \in UiConfigs : Call(max, "setSeekbarConfig", <<m, u>>, Undefined)

SetLoadingSpinnerState(max) ==
  \E show \in {Bool(TRUE), Bool(FALSE)} : Call(max, "setLoadingSpinnerState", <<show>>, Undefined)

\* the promise of loadStyleSheetAsync is fulfilled
CssLoaded ==
  \E i \in DOMAIN loads :
    /\ loads[i] = "pending"
    /\ loads' = [loads EXCEPT ![i] = "loaded"]
    /\ events' = onLoaded(events, i)
    /\ UNCHANGED <<pc, options, env, dom, disabled, uiManager, instances, history>>

\* the promise of loadStyleSheetAsync is rejected
CssFailed ==
  \E i \in DOMAIN loads :
    /\ loads[i] = "pending"
    /\ loads' = [loads EXCEPT ![i] = "failed"]
    /\ events' = onFailed(events, i)
    /\ UNCHANGED <<pc, options, env, dom, disabled, uiManager, instances, history>>

NextUpTo(max) ==
  \/ Construct
  \/ Destroy(max)
  \/ Reset(max)
  \/ SetConfig(max)
  \/ AddComponent(max)
  \/ RegisterManager(max)
  \/ GetManager(max)
  \/ HasManager(max)
  \/ SetSeekbarConfig(max)
  \/ SetLoadingSpinnerState(max)
  \/ CssLoaded
  \/ CssFailed

Next == NextUpTo(MaxOps)

CtorNext == NextUpTo(MaxCtorOps)

Spec == Init /\ [][Next]_vars

CtorSpec == CtorInit /\ [][CtorNext]_vars

(***************************************************************************)
(* Vocabulary of the properties                                            *)
(***************************************************************************)
Ready == pc = "ready"
Enabled == Ready /\ ~Truthy(options.ui.disable)
Disabled == Ready /\ Truthy(options.ui.disable)

IsUim(e) == e.target = "UIManager"
UimOnly(ev) == SelectSeq(ev, IsUim)
IsLoadStart(e) == e.target = "Utils.Dom" /\ e.method = "loadStyleSheetAsync"
IsLog(e) == e.target = "logger"
IsSetConfigFor(e, alias) == IsUim(e) /\ e.method = "setConfig" /\ e.args[2] = Str(alias)

\* the events made by the call h of the history
EventsOf(h) == SubSeq(events, h.from + 1, h.to)
\* the events made by the constructor
CtorLen == IF history = <<>> THEN Len(events) ELSE history[1].from
CtorEvents == SelectSeq(SubSeq(events, 1, CtorLen), LAMBDA e : ~IsLog(e))
Calls == {history[i] : i \in DOMAIN history}
Forwarded == {"setConfig", "addComponent", "registerManager", "getManager", "hasManager", "destroy"}

(***************************************************************************)
(* C1: on a wrapper constructed with ui.disable truthy, every call made on *)
(* it afterwards returns undefined, throws nothing and makes no call on    *)
(* anything; no UIManager method is ever called.                           *)
(***************************************************************************)
C1_DisabledCallsAreNoOps ==
  Disabled =>
    /\ \A h \in Calls : h.ret = Undefined /\ ~h.threw /\ h.from = h.to
    /\ UimOnly(events) = <<>>

\* a disabled wrapper on which destroy and another operation were called
C1_Witness ==
  /\ Disabled
  /\ Len(history) >= 2
  /\ history[1].op = "destroy"
  /\ history[2].op \in {"setSeekbarConfig", "addComponent", "reset"}

(***************************************************************************)
(* C2: on a wrapper constructed with ui.disable falsy, each call of        *)
(* setConfig, addComponent, registerManager, getManager, hasManager or     *)
(* destroy makes exactly one call, of the UIManager method of the same     *)
(* name with the same arguments; addComponent, getManager and hasManager   *)
(* return what the UIManager returned.                                     *)
(***************************************************************************)
C2_ForwardedOnce ==
  Enabled =>
    \A h \in Calls :
      h.op \in Forwarded =>
        /\ ~h.threw
        /\ Len(EventsOf(h)) = 1
        /\ LET e == EventsOf(h)[1] IN
             /\ IsUim(e) /\ e.inst = uiManager
             /\ e.method = h.op
             /\ e.args = h.args
             /\ h.op \in {"addComponent", "getManager", "hasManager"} => h.ret = e.ret

\* an enabled wrapper whose addComponent returned the removal function the
\* UIManager gave, and whose setConfig was called with an alias
C2_Witness ==
  /\ Enabled
  /\ \E h \in Calls : h.op = "addComponent" /\ h.ret = Ref("removeComponent")
  /\ \E h \in Calls : h.op = "setConfig" /\ h.args[2] = Str("overlay")

(***************************************************************************)
(* C3: every stylesheet load that has settled has exactly one log entry, a *)
(* debug entry if it succeeded and an error entry if it failed; a pending  *)
(* load has none, and there are no other log entries.  The step in which a *)
(* load fails changes nothing but the load and the log.                    *)
(***************************************************************************)
LogsOf(i) == SelectSeq(events, LAMBDA e : IsLog(e) /\ e.inst = i)

C3_LogInv ==
  /\ \A i \in DOMAIN loads :
       /\ loads[i] = "pending" => LogsOf(i) = <<>>
       /\ loads[i] = "loaded" => Len(LogsOf(i)) = 1 /\ LogsOf(i)[1].method = "debug"
       /\ loads[i] = "failed" => Len(LogsOf(i)) = 1 /\ LogsOf(i)[1].method = "error"
  /\ \A k \in DOMAIN events : IsLog(events[k]) => events[k].inst \in DOMAIN loads

C3_FailStep ==
  (\E i \in DOMAIN loads : loads[i] = "pending" /\ loads'[i] = "failed") =>
    /\ UNCHANGED <<pc, disabled, uiManager, instances, history>>
    /\ SelectSeq(events', LAMBDA e : ~IsLog(e)) = SelectSeq(events, LAMBDA e : ~IsLog(e))

C3_OneLogPerSettledLoad == []C3_LogInv /\ [][C3_FailStep]_vars

\* a failed load on a wrapper that has been called since
C3_Witness ==
  /\ \E i \in DOMAIN loads : loads[i] = "failed" /\ Len(LogsOf(i)) = 1
  /\ history # <<>>

\* a load that succeeded
C3_WitnessLoaded == \E i \in DOMAIN loads : loads[i] = "loaded" /\ Len(LogsOf(i)) = 1

(***************************************************************************)
(* C4: a wrapper has at most one stylesheet load, started by its           *)
(* constructor, and it has one exactly when ui.disable is falsy and ui.css *)
(* is truthy; the calls made after construction start none.                *)
(***************************************************************************)
LoadStarts == SelectSeq(events, IsLoadStart)

C4_OneLoadIffEnabledAndCss ==
  /\ Len(LoadStarts) = Len(loads)
  /\ ~Ready => loads = <<>>
  /\ Ready =>
       /\ Len(loads) = (IF ~Truthy(options.ui.disable) /\ Truthy(options.ui.css) THEN 1 ELSE 0)
       /\ \A h \in Calls : \A k \in DOMAIN EventsOf(h) : ~IsLoadStart(EventsOf(h)[k])

\* the constructor's load is the only one after a call was made on the wrapper
C4_Witness ==
  /\ Enabled
  /\ Len(loads) = 1
  /\ history # <<>>
  /\ Len(events) > CtorLen

(***************************************************************************)
(* C5: when ui.disable is falsy the constructor creates the UIManager      *)
(* once, first; then calls buildCustomUI(ui.customPreset) if the preset is *)
(* truthy and buildDefaultUI() otherwise, once; then comes the vrStereo    *)
(* configuration, then the start of the stylesheet load.  No setConfig and *)
(* no load start comes before the build.                                   *)
(***************************************************************************)
IsBuild(e) == IsUim(e) /\ e.method \in {"buildCustomUI", "buildDefaultUI"}

C5_ConstructionOrder ==
  Enabled =>
    /\ Len(CtorEvents) >= 2
    /\ CtorEvents[1] = Ev("UIManager", uiManager, "new", <<Player, options.ui>>, Undefined)
    /\ Len(SelectSeq(events, LAMBDA e : IsUim(e) /\ e.method = "new")) = 1
    /\ CtorEvents[2] = (IF Truthy(options.ui.customPreset)
                          THEN Ev("UIManager", uiManager, "buildCustomUI",
                                  <<options.ui.customPreset>>, Undefined)
                          ELSE Ev("UIManager", uiManager, "buildDefaultUI", <<>>, Undefined))
    /\ Len(SelectSeq(events, IsBuild)) = 1
    /\ \A k \in DOMAIN events :
         (IsLoadStart(events[k]) \/ (IsUim(events[k]) /\ events[k].method = "setConfig")) => k > 2
    /\ \A j, k \in DOMAIN CtorEvents :
         IsSetConfigFor(CtorEvents[j], "vrStereo") /\ IsLoadStart(CtorEvents[k]) => j < k
    /\ \A k \in DOMAIN CtorEvents :
         k > 2 => IsSetConfigFor(CtorEvents[k], "vrStereo") \/ IsLoadStart(CtorEvents[k])

\* a construction with a custom preset, the vrStereo configuration and a load
C5_Witness ==
  /\ Enabled
  /\ Truthy(options.ui.customPreset)
  /\ Len(CtorEvents) = 4
  /\ IsSetConfigFor(CtorEvents[3], "vrStereo")
  /\ IsLoadStart(CtorEvents[4])

(***************************************************************************)
(* C6: the constructor sends setConfig for 'vrStereo' exactly when         *)
(* ui.disable is falsy, plugins.vr is there, plugins.vr.disable is falsy   *)
(* and either toggleStereo is truthy, or the device is mobile or tablet    *)
(* and toggleStereo is not false itself.  It is then sent once, with       *)
(* vrStereoMode the boolean value of startInStereo.                        *)
(***************************************************************************)
VrStereoSent == SelectSeq(CtorEvents, LAMBDA e : IsSetConfigFor(e, "vrStereo"))

VrStereoExpected ==
  /\ ~Truthy(options.ui.disable)
  /\ options.plugins # Undefined
  /\ "vr" \in DOMAIN options.plugins
  /\ ~Truthy(options.plugins.vr.disable)
  /\ \/ Truthy(options.plugins.vr.toggleStereo)
     \/ /\ env.isMobile \/ env.isTablet
        /\ options.plugins.vr.toggleStereo # Bool(FALSE)

C6_VrStereoConfig ==
  Ready =>
    IF VrStereoExpected
      THEN /\ Len(VrStereoSent) = 1
           /\ VrStereoSent[1].args[1] =
                [vrStereoMode |-> Bool(Truthy(options.plugins.vr.startInStereo))]
      ELSE VrStereoSent = <<>>

\* a tablet with toggleStereo not set: sent, with vrStereoMode true
C6_Witness ==
  /\ Ready
  /\ env.isTablet /\ ~env.isMobile
  /\ VrStereoExpected
  /\ ~Truthy(options.plugins.vr.toggleStereo)
  /\ Len(VrStereoSent) = 1
  /\ VrStereoSent[1].args[1] = [vrStereoMode |-> Bool(TRUE)]

\* a mobile device with toggleStereo false: nothing sent
C6_WitnessExplicitFalse ==
  /\ Enabled
  /\ env.isMobile
  /\ options.plugins # Undefined /\ "vr" \in DOMAIN options.plugins
  /\ ~Truthy(options.plugins.vr.disable)
  /\ options.plugins.vr.toggleStereo = Bool(FALSE)
  /\ VrStereoSent = <<>>

(***************************************************************************)
(* C7: when ui.disable is truthy the constructor creates no UIManager,     *)
(* builds nothing, sends no vrStereo configuration and starts no load,     *)
(* whatever customPreset, css and plugins.vr are; all it does is append    *)
(* the player view to the element of id ui.targetId, once, if there is     *)
(* one.                                                                    *)
(***************************************************************************)
C7_DisabledConstruction ==
  Disabled =>
    /\ disabled
    /\ uiManager = NoManager
    /\ instances = 0
    /\ loads = <<>>
    /\ events = (IF options.ui.targetId \in dom
                   THEN << Ev("element", 0, "appendChild", <<options.ui.targetId, PlayerView>>, Undefined) >>
                   ELSE <<>>)

\* disabled with preset, css and vr all set, and the target element there
C7_Witness ==
  /\ Disabled
  /\ Truthy(options.ui.customPreset) /\ Truthy(options.ui.css)
  /\ options.plugins # Undefined /\ "vr" \in DOMAIN options.plugins
  /\ Truthy(options.plugins.vr.toggleStereo)
  /\ Len(events) = 1
  /\ events[1].method = "appendChild"

\* the same with no target element: nothing done
C7_WitnessNoTarget ==
  /\ Disabled
  /\ options.ui.targetId \notin dom
  /\ events = <<>>
  /\ history # <<>>

(***************************************************************************)
(* C8: on an enabled wrapper setSeekbarConfig(mediaConfig, uiConfig) makes *)
(* exactly one call, setConfig for 'seekbar', with the generated preview   *)
(* thumbnail configuration overridden by uiConfig.components.seekbar: each *)
(* key the user defines has the user's value, each generated key the user  *)
(* does not define has its generated value, and there is no other key;     *)
(* with no components.seekbar the generated configuration is sent as is.   *)
(***************************************************************************)
HasSeekbar(uiConfig) ==
  /\ uiConfig # Undefined
  /\ "components" \in DOMAIN uiConfig
  /\ "seekbar" \in DOMAIN uiConfig.components

UserSeekbar(uiConfig) == IF HasSeekbar(uiConfig) THEN uiConfig.components.seekbar ELSE Undefined

Generated(mediaConfig, uiConfig) ==
  [thumbsSprite |-> getThumbSlicesUrl(mediaConfig, UserSeekbar(uiConfig)),
   thumbsWidth |-> Num(DEFAULT_THUMBS_WIDTH),
   thumbsSlices |-> Num(DEFAULT_THUMBS_SLICES)]

C8_SeekbarConfig ==
  Enabled =>
    \A h \in Calls :
      h.op = "setSeekbarConfig" =>
        /\ Len(EventsOf(h)) = 1
        /\ IsSetConfigFor(EventsOf(h)[1], "seekbar")
        /\ EventsOf(h)[1].inst = uiManager
        /\ LET sent == EventsOf(h)[1].args[1]
               gen == Generated(h.args[1], h.args[2])
               user == UserSeekbar(h.args[2])
           IN  IF HasSeekbar(h.args[2])
                 THEN /\ DOMAIN sent = DOMAIN gen \cup DOMAIN user
                      /\ \A k \in DOMAIN user : sent[k] = user[k]
                      /\ \A k \in DOMAIN gen \ DOMAIN user : sent[k] = gen[k]
                 ELSE sent = gen

\* a user configuration that overrides the sprite and the slices, adds a key
\* of its own and leaves the width to the generated default
C8_Witness ==
  /\ Enabled
  /\ \E h \in Calls :
       /\ h.op = "setSeekbarConfig"
       /\ HasSeekbar(h.args[2])
       /\ DOMAIN UserSeekbar(h.args[2]) = {"thumbsSprite", "thumbsSlices", "color"}
       /\ EventsOf(h)[1].args[1].thumbsSprite = Str("user.png")
       /\ EventsOf(h)[1].args[1].thumbsWidth = Num(DEFAULT_THUMBS_WIDTH)
       /\ EventsOf(h)[1].args[1].color = Str("red")

\* no components.seekbar: the generated configuration as is
C8_WitnessNoUser ==
  /\ Enabled
  /\ \E h \in Calls :
       /\ h.op = "setSeekbarConfig"
       /\ ~HasSeekbar(h.args[2])
       /\ DOMAIN EventsOf(h)[1].args[1] = {"thumbsSprite", "thumbsWidth", "thumbsSlices"}

(***************************************************************************)
(* C9: on an enabled wrapper the calls the UIManager receives are those it *)
(* receives when the same calls are made on the wrapper with no load in    *)
(* flight: whether the load is pending, has succeeded or has failed, and   *)
(* wherever its settling falls among the calls, the sequence of UIManager  *)
(* calls is the constructor's followed by those of the history replayed    *)
(* one after the other.                                                    *)
(***************************************************************************)
RECURSIVE Replay(_, _)
Replay(ev, calls) ==
  IF calls = <<>>
    THEN ev
    ELSE Replay(ApplyOn(uiManager, ev, ProxyGet(Head(calls).op), Head(calls).args,
                        Head(calls).uimRet).events,
                Tail(calls))

C9_LoadDoesNotInterfere ==
  Enabled => UimOnly(events) = Replay(UimOnly(CtorEvents), history)

\* a call made while the load was pending, the load failing, then destroy
C9_Witness ==
  /\ Enabled
  /\ Len(history) = 2
  /\ Len(loads) = 1 /\ loads[1] = "failed"
  /\ history[1].op = "setConfig"
  /\ history[1].to < history[2].from
  /\ events[history[2].from].method = "error"
  /\ history[2].op = "destroy"
  /\ Len(UimOnly(events)) = Len(UimOnly(CtorEvents)) + 2

(***************************************************************************)
(* C10: after construction the disabled flag is the truth value of         *)
(* ui.disable and the UIManager is the one instance the constructor        *)
(* created (none when disabled), whatever was called since.  On an enabled *)
(* wrapper the calls made after destroy reach that same UIManager, and     *)
(* each reset makes exactly one call: setConfig({hasError: false},         *)
(* 'engine').                                                              *)
(***************************************************************************)
C10_ModeFixedAtConstruction ==
  Ready =>
    /\ disabled = Truthy(options.ui.disable)
    /\ instances = (IF disabled THEN 0 ELSE 1)
    /\ uiManager = (IF disabled THEN NoManager ELSE 1)
    /\ \A k \in DOMAIN events : IsUim(events[k]) => events[k].inst = uiManager
    /\ ~disabled =>
         \A i \in DOMAIN history :
           /\ history[i].op = "reset" =>
                EventsOf(history[i]) =
                  << Ev("UIManager", uiManager, "setConfig",
                        << [hasError |-> Bool(FALSE)], Str("engine") >>, Undefined) >>
           /\ (\E j \in 1..(i - 1) : history[j].op = "destroy") =>
                /\ ~history[i].threw
                /\ Len(EventsOf(history[i])) = 1
                /\ IsUim(EventsOf(history[i])[1])

\* reset called after destroy on an enabled wrapper
C10_Witness ==
  /\ Enabled
  /\ Len(history) >= 2
  /\ history[1].op = "destroy"
  /\ history[2].op = "reset"
  /\ IsSetConfigFor(events[Len(events)], "engine")
====
